---- MODULE Spec2Model ----
(***************************************************************************)
(* Model of rardecode/reader.go and of tag/id.go.                          *)
(* rardecode/reader.go: the bounded reader (limitedReader), the            *)
(* block-chain walker (packedFileReader) and the per-file pipeline         *)
(* assembler (Reader).  The block source (fileBlockReader), the decode     *)
(* layer and the decrypt layer are collaborators whose code is not part of *)
(* reader.go; they are modelled from their contracts.  The block source    *)
(* reveals the archive one record at a time: each call of its next() picks *)
(* the record it hands out, so every archive of at most MaxBlocks records  *)
(* is covered.                                                             *)
(* tag/id.go: Identify as an operator on a ReadSeeker over concrete bytes. *)
(***************************************************************************)
EXTENDS Integers, Sequences, FiniteSets, TLC

VARIABLES
    src,      \* block source: state, current record, read offset
    h,        \* packedFileReader.h, the walker's current record (NilHdr = nil)
    g,        \* history of what the block source handed out (ghost)
    rd,       \* Reader: the chain r.r with its layers' state, cksum, solidr
    obs,      \* what the caller observed from the last call (ghost)
    arc,      \* the family of archives the block source draws from (fixed)
    rs        \* the io.ReadSeeker handed to tag.Identify: its bytes and position

vars == <<src, h, g, rd, obs, arc, rs>>

(***************************** bounds **************************************)
MaxBlocks == 3
MaxBlockLen == 2
MaxBuf == 2
MaxPad == 1
MaxSize == 1
CksumMod == 2
MaxMem == 5
MaxLimit == 5
MaxBadReads == 2
MaxFileBlocks == 2
MaxFileBlockLen == 1
MaxSolidBlocks == 3
MaxKey == 1
MaxPos == 2
MaxExtra == 2

Stride == MaxBlockLen + 1

(***************************** errors **************************************)
OK == "nil"
EOF == "io.EOF"
errShortFile == "errShortFile"
errInvalidFileBlock == "errInvalidFileBlock"
errUnexpectedArcEnd == "errUnexpectedArcEnd"
errBadFileChecksum == "errBadFileChecksum"
errIO == "errIO"

Min(a, b) == IF a < b THEN a ELSE b

Names == {"a", "b"}

(* fileBlockHeader, the fields the walker reads: serial identifies the     *)
(* record (the pointer the block source returns) and, with len, its        *)
(* payload.                                                                *)
MkBlock(first, last, name, len) ==
    [serial |-> 0, first |-> first, last |-> last, name |-> name, len |-> len]

NilHdr == MkBlock(FALSE, FALSE, "", 0)

(* The records an archive of the family c may hold.                       *)
Blocks(c) ==
    { MkBlock(f, l, nm, n) :
        f \in BOOLEAN, l \in BOOLEAN, nm \in c.names, n \in 0..c.maxLen }

(* fileBlockHeader, the fields Reader.Next reads of the record that starts *)
(* a file; the block source reveals them when Next reads them.  decoder is *)
(* "none" (nil) or "ok"; want is the digest the checksum sink expects, -1  *)
(* for no sink; size and unknown are UnPackedSize and UnKnownSize; key and *)
(* iv are len(h.key) and len(h.iv); pad is the number of bytes the decode  *)
(* layer emits after the file's own.                                       *)
FileAttrs ==
    { a \in [solid : BOOLEAN, decoder : {"none", "ok"}, want : -1..(CksumMod - 1),
             size : -1..MaxSize, unknown : BOOLEAN, key : {0}, iv : {0},
             pad : 0..MaxPad] :
        /\ a.decoder = "none" => ~a.solid /\ a.pad = 0
        /\ a.unknown => a.size = MaxSize }

(* The fields of a record the walker reads, for the history.               *)
Core(b) == [serial |-> b.serial, first |-> b.first, last |-> b.last, name |-> b.name]

(* FileHeader: what Next copies out of the record (serial tells whose).    *)
FileHeaderOf(b, a) ==
    [serial |-> b.serial, name |-> b.name, size |-> a.size, unknown |-> a.unknown]

NilFile == [serial |-> 0, name |-> "", size |-> 0, unknown |-> FALSE]

Payload(b) == [i \in 1..b.len |-> b.serial * Stride + i]

IsPrefix(s, t) == Len(s) <= Len(t) /\ SubSeq(t, 1, Len(s)) = s

(************************ block source (collaborator) **********************)
(* History: prev is the record that was current when the latest call of   *)
(* next() changed the source, fed is the payload of the records handed out since the latest  *)
(* record with first=true (that record included), start its serial,        *)
(* chainOK whether those records form a chain so far, arcOK whether every  *)
(* record handed out so far fits a well-formed archive, nFiles the number  *)
(* of first=true records handed out.                                       *)
GhostNext(w, b) ==
    LET prev == w.src.cur
        boundary == prev = NilHdr \/ prev.last
        cont == ~b.first /\ ~boundary /\ b.name = prev.name
    IN  [prev    |-> Core(prev),
         fed     |-> IF b.first THEN Payload(b) ELSE w.g.fed \o Payload(b),
         start   |-> IF b.first THEN b.serial ELSE w.g.start,
         chainOK |-> IF b.first THEN TRUE ELSE w.g.chainOK /\ cont,
         arcOK   |-> w.g.arcOK /\ (IF boundary THEN b.first ELSE cont),
         nFiles  |-> IF b.first THEN w.g.nFiles + 1 ELSE w.g.nFiles]

GhostEnd(w, err) ==
    [w.g EXCEPT !.prev = Core(w.src.cur),
                !.arcOK = @ /\ err = EOF /\ (w.src.cur = NilHdr \/ w.src.cur.last)]

(* fileBlockReader.next: the next record, io.EOF once the archive has      *)
(* ended, or an I/O error; both ends are final.                            *)
SrcNext(w, env) ==
    IF w.src.st = "eof" THEN {[w |-> w, h |-> NilHdr, err |-> EOF]}
    ELSE IF w.src.st = "fail" THEN {[w |-> w, h |-> NilHdr, err |-> errIO]}
    ELSE
      { LET b == [b0 EXCEPT !.serial = w.src.n + 1]
        IN  [w |-> [w EXCEPT !.src = [@ EXCEPT !.n = @ + 1, !.cur = b, !.off = 0],
                             !.g = GhostNext(w, b)],
             h |-> b, err |-> OK]
        : b0 \in IF w.src.n < w.arc.maxBlocks THEN Blocks(w.arc) ELSE {} }
      \cup
      { [w |-> [w EXCEPT !.src = [@ EXCEPT !.st = IF e = EOF THEN "eof" ELSE "fail",
                                             !.cur = NilHdr, !.off = 0],
                         !.g = GhostEnd(w, e)],
         h |-> NilHdr, err |-> e] : e \in {EOF, errIO} }

(* fileBlockReader.Read: bytes of the current block; at most env.chunk per *)
(* call; io.EOF with the last bytes (env.eager) or on the call after them. *)
SrcRead(w, plen, env) ==
    LET b == w.src.cur
        rem == b.len - w.src.off
        k == Min(Min(plen, env.chunk), rem)
    IN  IF rem = 0 THEN [w |-> w, n |-> 0, data |-> <<>>, err |-> EOF]
        ELSE [w |-> [w EXCEPT !.src.off = @ + k],
              n |-> k,
              data |-> SubSeq(Payload(b), w.src.off + 1, w.src.off + k),
              err |-> IF k = rem /\ env.eager THEN EOF ELSE OK]

(************************ packedFileReader *********************************)
(* nextBlockInFile with the name comparison left out.                      *)
nextBlockInFile_noName(w, env) ==
    { IF o.err # OK
        THEN [w |-> o.w, err |-> IF o.err = EOF THEN errUnexpectedArcEnd ELSE o.err]
      ELSE IF o.h.first
        THEN [w |-> o.w, err |-> errInvalidFileBlock]
      ELSE [w |-> [o.w EXCEPT !.h = o.h], err |-> OK]
      : o \in SrcNext(w, env) }

(* nextBlockInFile handing the block source's io.EOF on unchanged.         *)
nextBlockInFile_plainEOF(w, env) ==
    { IF o.err # OK
        THEN [w |-> o.w, err |-> o.err]
      ELSE IF o.h.first \/ o.h.name # w.h.name
        THEN [w |-> o.w, err |-> errInvalidFileBlock]
      ELSE [w |-> [o.w EXCEPT !.h = o.h], err |-> OK]
      : o \in SrcNext(w, env) }

nextBlockInFile(w, env) ==
    { IF o.err # OK
        THEN [w |-> o.w, err |-> IF o.err = EOF THEN errUnexpectedArcEnd ELSE o.err]
      ELSE IF o.h.first \/ o.h.name # w.h.name
        THEN [w |-> o.w, err |-> errInvalidFileBlock]
      ELSE [w |-> [o.w EXCEPT !.h = o.h], err |-> OK]
      : o \in SrcNext(w, env) }

(* The skip loop left out: next() fetches from wherever the source is.     *)
skipToLast_none(w, env) == {[w |-> w, err |-> OK]}

RECURSIVE skipToLast(_, _)
skipToLast(w, env) ==
    IF w.h.last THEN {[w |-> w, err |-> OK]}
    ELSE UNION { IF o.err # OK THEN {o} ELSE skipToLast(o.w, env)
                 : o \in nextBlockInFile(w, env) }

(* next() without the check of the first flag.                             *)
pfrNext_noFirst(w, env) ==
    LET skipped == IF w.h # NilHdr THEN skipToLast(w, env) ELSE {[w |-> w, err |-> OK]}
    IN  UNION {
          IF s.err # OK THEN {[w |-> s.w, h |-> NilHdr, err |-> s.err]}
          ELSE { IF o.err # OK
                   THEN [w |-> [o.w EXCEPT !.h = NilHdr], h |-> NilHdr, err |-> o.err]
                 ELSE [w |-> [o.w EXCEPT !.h = o.h], h |-> o.h, err |-> OK]
                 : o \in SrcNext(s.w, env) }
          : s \in skipped }

pfrNext(w, env) ==
    LET skipped == IF w.h # NilHdr THEN skipToLast(w, env) ELSE {[w |-> w, err |-> OK]}
    IN  UNION {
          IF s.err # OK THEN {[w |-> s.w, h |-> NilHdr, err |-> s.err]}
          ELSE { IF o.err # OK
                   THEN [w |-> [o.w EXCEPT !.h = NilHdr], h |-> NilHdr, err |-> o.err]
                 ELSE IF ~o.h.first
                   THEN [w |-> [o.w EXCEPT !.h = o.h], h |-> NilHdr, err |-> errInvalidFileBlock]
                 ELSE [w |-> [o.w EXCEPT !.h = o.h], h |-> o.h, err |-> OK]
                 : o \in SrcNext(s.w, env) }
          : s \in skipped }

(* Read reporting io.EOF at the end of every block, last or not.           *)
pfrReadLoop_eofAtBlockEnd(r, plen, env) ==
    IF r.err # EOF THEN {r}
    ELSE IF r.n > 0 THEN {[r EXCEPT !.err = OK]}
    ELSE {[w |-> r.w, n |-> 0, data |-> <<>>, err |-> EOF]}

(* Read handing on io.EOF together with the bytes it came with.            *)
RECURSIVE pfrReadLoop_eofWithBytes(_, _, _)
pfrReadLoop_eofWithBytes(r, plen, env) ==
    IF r.err # EOF THEN {r}
    ELSE IF r.n > 0 THEN {r}
    ELSE IF r.w.h = NilHdr \/ r.w.h.last THEN {[w |-> r.w, n |-> 0, data |-> <<>>, err |-> EOF]}
    ELSE UNION { IF o.err # OK
                   THEN {[w |-> o.w, n |-> 0, data |-> <<>>, err |-> o.err]}
                 ELSE pfrReadLoop_eofWithBytes(SrcRead(o.w, plen, env), plen, env)
                 : o \in nextBlockInFile(r.w, env) }

RECURSIVE pfrReadLoop(_, _, _)
pfrReadLoop(r, plen, env) ==
    IF r.err # EOF THEN {r}
    ELSE IF r.n > 0 THEN {[r EXCEPT !.err = OK]}
    ELSE IF r.w.h = NilHdr \/ r.w.h.last THEN {[w |-> r.w, n |-> 0, data |-> <<>>, err |-> EOF]}
    ELSE UNION { IF o.err # OK
                   THEN {[w |-> o.w, n |-> 0, data |-> <<>>, err |-> o.err]}
                 ELSE pfrReadLoop(SrcRead(o.w, plen, env), plen, env)
                 : o \in nextBlockInFile(r.w, env) }

pfrRead(w, plen, env) == pfrReadLoop(SrcRead(w, plen, env), plen, env)

(************************ the layers of the chain **************************)
NilSum == [id |-> 0, want |-> -1]

(* Reader.init: r.r = bytes.NewReader(nil), every other field zero.        *)
NewReader ==
    [chain  |-> [base |-> "mem", aes |-> FALSE, dec |-> FALSE, lim |-> FALSE, tee |-> FALSE],
     mem    |-> [len |-> 0, off |-> 0],
     lim    |-> 0,
     shortErr |-> OK,
     dr     |-> [aes |-> FALSE, dict |-> 0, pad |-> 0, eof |-> FALSE, reset |-> FALSE],
     cksum  |-> NilSum,
     sink   |-> <<>>,
     solidr |-> FALSE,
     owner  |-> 0]

MapSeq(F(_), q) == [i \in 1..Len(q) |-> F(q[i])]

(* bytes.Reader: the source under r.r before the first Next (it holds no   *)
(* bytes) and the inner source of a limitedReader used on its own.  Byte i *)
(* has the value i.                                                        *)
memRead(w, plen, env) ==
    LET m == w.rd.mem
        rem == m.len - m.off
        k == Min(Min(plen, env.chunk), rem)
    IN  IF rem = 0 THEN {[w |-> w, n |-> 0, data |-> <<>>, err |-> EOF]}
        ELSE {[w |-> [w EXCEPT !.rd.mem.off = @ + k],
               n |-> k,
               data |-> [i \in 1..k |-> m.off + i],
               err |-> IF k = rem /\ env.eager THEN EOF ELSE OK]}

baseRead(w, plen, env) ==
    IF w.rd.chain.base = "pr" THEN pfrRead(w, plen, env) ELSE memRead(w, plen, env)

(* Decrypt layer (collaborator): as many bytes as it read, each decrypted. *)
Decrypt(b) == b + 1000

aesRead(w, plen, env) ==
    { [o EXCEPT !.data = MapSeq(Decrypt, o.data)] : o \in baseRead(w, plen, env) }

(* Decode layer (collaborator): it decodes what its source r.dr.r holds,   *)
(* then emits the file's padding, then reports io.EOF; dict counts the     *)
(* bytes it has produced since its dictionary was last reset.              *)
Decode(b) == 2 * b + 1

PadByte == 0

drFinish(o, env) ==
    IF o.n > 0 /\ o.err = OK /\ o.w.rd.dr.eof /\ o.w.rd.dr.pad = 0 /\ env.eager
    THEN [o EXCEPT !.err = EOF] ELSE o

drPad(w, plen) ==
    LET k == Min(plen, w.rd.dr.pad)
    IN  IF k = 0 THEN [w |-> w, n |-> 0, data |-> <<>>, err |-> EOF]
        ELSE [w |-> [w EXCEPT !.rd.dr.pad = @ - k, !.rd.dr.dict = @ + k],
              n |-> k, data |-> [i \in 1..k |-> PadByte], err |-> OK]

drSource(w, plen, env) ==
    IF w.rd.dr.aes THEN aesRead(w, plen, env) ELSE baseRead(w, plen, env)

drRead(w, plen, env) ==
    IF w.rd.dr.eof THEN {drFinish(drPad(w, plen), env)}
    ELSE { drFinish(
             IF o.err = EOF /\ o.n = 0
               THEN drPad([o.w EXCEPT !.rd.dr.eof = TRUE], plen)
             ELSE [w |-> [o.w EXCEPT !.rd.dr.dict = @ + o.n, !.rd.dr.eof = (o.err = EOF)],
                   n |-> o.n, data |-> MapSeq(Decode, o.data),
                   err |-> IF o.err = EOF THEN OK ELSE o.err],
             env)
           : o \in drSource(w, plen, env) }

(* decodeReader.init: refuses a decoder it does not support ("bad").       *)
drInit(dr, aes, decoder, pad, reset) ==
    IF decoder = "bad" THEN [dr |-> dr, err |-> "errInit"]
    ELSE [dr |-> [aes |-> aes, dict |-> IF reset THEN 0 ELSE dr.dict, pad |-> pad,
                  eof |-> FALSE, reset |-> reset],
          err |-> OK]

(* The reader a limitedReader or a tee wraps.                              *)
belowLimit(w, plen, env) ==
    IF w.rd.chain.dec THEN drRead(w, plen, env)
    ELSE IF w.rd.chain.aes THEN aesRead(w, plen, env)
    ELSE baseRead(w, plen, env)

(* limitedReader.Read without the clipping of p to the bytes remaining.    *)
limRead_noClip(w, plen, env) ==
    IF w.rd.lim <= 0 THEN {[w |-> w, n |-> 0, data |-> <<>>, err |-> EOF]}
    ELSE { LET left == o.w.rd.lim - o.n
           IN  [w |-> [o.w EXCEPT !.rd.lim = left], n |-> o.n, data |-> o.data,
                err |-> IF o.err = EOF /\ left > 0 THEN w.rd.shortErr ELSE o.err]
           : o \in belowLimit(w, plen, env) }

limRead(w, plen, env) ==
    IF w.rd.lim <= 0 THEN {[w |-> w, n |-> 0, data |-> <<>>, err |-> EOF]}
    ELSE LET p == IF plen > w.rd.lim THEN w.rd.lim ELSE plen
         IN  { LET left == o.w.rd.lim - o.n
               IN  [w |-> [o.w EXCEPT !.rd.lim = left], n |-> o.n, data |-> o.data,
                    err |-> IF o.err = EOF /\ left > 0 THEN w.rd.shortErr ELSE o.err]
               : o \in belowLimit(w, p, env) }

belowTee(w, plen, env) ==
    IF w.rd.chain.lim THEN limRead(w, plen, env) ELSE belowLimit(w, plen, env)

(* io.TeeReader over the checksum sink (its Write does not fail).          *)
teeRead(w, plen, env) ==
    { IF o.n > 0 THEN [o EXCEPT !.w.rd.sink = @ \o o.data] ELSE o
      : o \in belowTee(w, plen, env) }

chainRead(w, plen, env) ==
    IF w.rd.chain.tee THEN teeRead(w, plen, env) ELSE belowTee(w, plen, env)

(************************ Reader *******************************************)
RECURSIVE SumSeq(_)
SumSeq(q) == IF q = <<>> THEN 0 ELSE q[1] + SumSeq(Tail(q))

(* fileChecksum.valid (collaborator): the digest of the bytes written to   *)
(* the sink is the one the header expects.                                 *)
valid(w) == SumSeq(w.rd.sink) % CksumMod = w.rd.cksum.want

(* Reader.Read turning every error at all into errBadFileChecksum when the *)
(* sink is invalid.                                                        *)
readerRead_anyError(w, plen, env) ==
    { LET asked == o.err # OK /\ o.w.rd.cksum # NilSum
      IN  [w |-> o.w, n |-> o.n, data |-> o.data,
           err |-> IF asked /\ ~valid(o.w) THEN errBadFileChecksum ELSE o.err,
           cerr |-> o.err, asked |-> asked]
      : o \in chainRead(w, plen, env) }

(* Reader.Read that never asks the sink.                                   *)
readerRead_noCheck(w, plen, env) ==
    { [w |-> o.w, n |-> o.n, data |-> o.data, err |-> o.err,
       cerr |-> o.err, asked |-> FALSE]
      : o \in chainRead(w, plen, env) }

(* Reader.Read; cerr is what the chain r.r returned, asked whether valid() *)
(* was called.                                                             *)
readerRead(w, plen, env) ==
    { LET asked == o.err = EOF /\ o.w.rd.cksum # NilSum
      IN  [w |-> o.w, n |-> o.n, data |-> o.data,
           err |-> IF asked /\ ~valid(o.w) THEN errBadFileChecksum ELSE o.err,
           cerr |-> o.err, asked |-> asked]
      : o \in chainRead(w, plen, env) }

(* The drain reading the whole chain r.r instead of r.solidr.              *)
RECURSIVE drain_viaChain(_, _)
drain_viaChain(w, env) ==
    UNION { IF o.err = OK THEN drain_viaChain(o.w, env)
            ELSE {[w |-> o.w, err |-> IF o.err = EOF THEN OK ELSE o.err]}
            : o \in chainRead(w, 8192, env) }

(* io.Copy(ioutil.Discard, r.solidr): reads r.dr, which r.solidr points    *)
(* to, with Discard's buffer of 8192 bytes until an error; io.EOF is       *)
(* success.                                                                *)
RECURSIVE drain(_, _)
drain(w, env) ==
    UNION { IF o.err = OK THEN drain(o.w, env)
            ELSE {[w |-> o.w, err |-> IF o.err = EOF THEN OK ELSE o.err]}
            : o \in drRead(w, 8192, env) }

(* The drain done with Reader.Read, through bound, tee and checksum.       *)
RECURSIVE drain_viaRead(_, _)
drain_viaRead(w, env) ==
    UNION { IF o.err = OK THEN drain_viaRead(o.w, env)
            ELSE {[w |-> o.w, err |-> IF o.err = EOF THEN OK ELSE o.err]}
            : o \in readerRead(w, 8192, env) }

solidDrain_viaRead(w, env) ==
    IF w.rd.solidr THEN drain_viaRead(w, env) ELSE {[w |-> w, err |-> OK]}

(* Next without its first step.                                            *)
solidDrain_none(w, env) == {[w |-> w, err |-> OK]}

solidDrain(w, env) ==
    IF w.rd.solidr THEN drain(w, env) ELSE {[w |-> w, err |-> OK]}

(* The decrypt layer added for a key alone.                                *)
encrypted_keyOnly(a) == a.key > 0

(* len(h.key) > 0 && len(h.iv) > 0                                         *)
encrypted(a) == a.key > 0 /\ a.iv > 0

(* Next returning a pointer into the walker's record instead of a copy.    *)
returnedHeader_live(hd, a) == [fh |-> FileHeaderOf(hd, a), live |-> TRUE]

(* fh := new(FileHeader); *fh = h.FileHeader: a fresh value, not live.     *)
returnedHeader(hd, a) == [fh |-> FileHeaderOf(hd, a), live |-> FALSE]

(* Next building the chain without the limitReader.                        *)
assemble_noLimit(w, hd, a) ==
    LET c0 == [base |-> "pr", aes |-> encrypted(a), dec |-> FALSE, lim |-> FALSE,
               tee |-> FALSE]
        ini == drInit(w.rd.dr, encrypted(a), a.decoder, a.pad, ~a.solid)
        dec == a.decoder # "none"
        sum == IF a.want >= 0 THEN [id |-> hd.serial, want |-> a.want] ELSE NilSum
    IN  IF dec /\ ini.err # OK
          THEN [w |-> [w EXCEPT !.rd.solidr = FALSE, !.rd.chain = c0,
                                !.rd.owner = hd.serial],
                fh |-> NilFile, live |-> FALSE, err |-> ini.err]
        ELSE [w |-> [w EXCEPT !.rd =
                       [chain |-> [c0 EXCEPT !.dec = dec, !.tee = (sum # NilSum)],
                        mem |-> @.mem, lim |-> 0, shortErr |-> OK,
                        dr  |-> IF dec THEN ini.dr ELSE @.dr,
                        cksum |-> sum, sink |-> <<>>,
                        solidr |-> dec /\ w.src.solid,
                        owner |-> hd.serial]],
              fh |-> returnedHeader(hd, a).fh, live |-> returnedHeader(hd, a).live,
              err |-> OK]

(* Next passing the solid flag itself as the reset flag.                   *)
assemble_resetSolid(w, hd, a) ==
    LET c0 == [base |-> "pr", aes |-> encrypted(a), dec |-> FALSE, lim |-> FALSE,
               tee |-> FALSE]
        ini == drInit(w.rd.dr, encrypted(a), a.decoder, a.pad, a.solid)
        dec == a.decoder # "none"
        lim == a.size >= 0 /\ ~a.unknown
        sum == IF a.want >= 0 THEN [id |-> hd.serial, want |-> a.want] ELSE NilSum
    IN  IF dec /\ ini.err # OK
          THEN [w |-> [w EXCEPT !.rd.solidr = FALSE, !.rd.chain = c0,
                                !.rd.owner = hd.serial],
                fh |-> NilFile, live |-> FALSE, err |-> ini.err]
        ELSE [w |-> [w EXCEPT !.rd =
                       [chain |-> [c0 EXCEPT !.dec = dec, !.lim = lim, !.tee = (sum # NilSum)],
                        mem |-> @.mem,
                        lim |-> IF lim THEN a.size ELSE 0,
                        shortErr |-> IF lim THEN errShortFile ELSE OK,
                        dr  |-> IF dec THEN ini.dr ELSE @.dr,
                        cksum |-> sum, sink |-> <<>>,
                        solidr |-> dec /\ w.src.solid,
                        owner |-> hd.serial]],
              fh |-> returnedHeader(hd, a).fh, live |-> returnedHeader(hd, a).live,
              err |-> OK]

(* Next without line 204: a pending drain target is kept.                  *)
assemble_keepSolidr(w, hd, a) ==
    LET c0 == [base |-> "pr", aes |-> encrypted(a), dec |-> FALSE, lim |-> FALSE,
               tee |-> FALSE]
        ini == drInit(w.rd.dr, encrypted(a), a.decoder, a.pad, ~a.solid)
        dec == a.decoder # "none"
        lim == a.size >= 0 /\ ~a.unknown
        sum == IF a.want >= 0 THEN [id |-> hd.serial, want |-> a.want] ELSE NilSum
    IN  IF dec /\ ini.err # OK
          THEN [w |-> [w EXCEPT !.rd.chain = c0,
                                !.rd.owner = hd.serial],
                fh |-> NilFile, live |-> FALSE, err |-> ini.err]
        ELSE [w |-> [w EXCEPT !.rd =
                       [chain |-> [c0 EXCEPT !.dec = dec, !.lim = lim, !.tee = (sum # NilSum)],
                        mem |-> @.mem,
                        lim |-> IF lim THEN a.size ELSE 0,
                        shortErr |-> IF lim THEN errShortFile ELSE OK,
                        dr  |-> IF dec THEN ini.dr ELSE @.dr,
                        cksum |-> sum, sink |-> <<>>,
                        solidr |-> (dec /\ w.src.solid) \/ w.rd.solidr,
                        owner |-> hd.serial]],
              fh |-> returnedHeader(hd, a).fh, live |-> returnedHeader(hd, a).live,
              err |-> OK]

(* Next from r.solidr = nil to its return, hd being the record pr.next     *)
(* returned.  A limitedReader or a sink the chain no longer holds is       *)
(* garbage: its state is dropped.  owner is the record for which r.r was   *)
(* last assigned (line 206).  When dr.init fails Next returns at line 216: *)
(* r.r is the new file's packed (or decrypted) stream, r.cksum and the     *)
(* sink's contents are untouched.                                          *)
assemble(w, hd, a) ==
    LET c0 == [base |-> "pr", aes |-> encrypted(a), dec |-> FALSE, lim |-> FALSE,
               tee |-> FALSE]
        ini == drInit(w.rd.dr, encrypted(a), a.decoder, a.pad, ~a.solid)
        dec == a.decoder # "none"
        lim == a.size >= 0 /\ ~a.unknown
        sum == IF a.want >= 0 THEN [id |-> hd.serial, want |-> a.want] ELSE NilSum
    IN  IF dec /\ ini.err # OK
          THEN [w |-> [w EXCEPT !.rd.solidr = FALSE, !.rd.chain = c0,
                                !.rd.owner = hd.serial],
                fh |-> NilFile, live |-> FALSE, err |-> ini.err]
        ELSE [w |-> [w EXCEPT !.rd =
                       [chain |-> [c0 EXCEPT !.dec = dec, !.lim = lim, !.tee = (sum # NilSum)],
                        mem |-> @.mem,
                        lim |-> IF lim THEN a.size ELSE 0,
                        shortErr |-> IF lim THEN errShortFile ELSE OK,
                        dr  |-> IF dec THEN ini.dr ELSE @.dr,
                        cksum |-> sum, sink |-> <<>>,
                        solidr |-> dec /\ w.src.solid,
                        owner |-> hd.serial]],
              fh |-> returnedHeader(hd, a).fh, live |-> returnedHeader(hd, a).live,
              err |-> OK]

(* The decode layer and the payload handed out when Next's drain ended.    *)
Mid(w) ==
    [eof |-> w.rd.dr.eof /\ w.rd.dr.pad = 0, dict |-> w.rd.dr.dict,
     fedLen |-> Len(w.g.fed), start |-> w.g.start]

NoMid == [eof |-> FALSE, dict |-> 0, fedLen |-> 0, start |-> 0]

(* Reader.Next up to the return of pr.next: stage is the step it stopped   *)
(* in, h the record pr.next returned.                                      *)
advance(w, env) ==
    UNION {
      IF d.err # OK
        THEN {[w |-> d.w, h |-> NilHdr, err |-> d.err, stage |-> "drain", mid |-> Mid(d.w)]}
      ELSE { [w |-> o.w, h |-> o.h, err |-> o.err, stage |-> "advance", mid |-> Mid(d.w)]
             : o \in pfrNext(d.w, env) }
      : d \in solidDrain(w, env) }

(* Reader.Next, a being the fields it reads of the record pr.next returns. *)
readerNext(p, a) ==
    IF p.err # OK
      THEN [w |-> p.w, fh |-> NilFile, live |-> FALSE, err |-> p.err,
            stage |-> p.stage, mid |-> p.mid]
    ELSE LET r == assemble(p.w, p.h, a)
         IN  [w |-> r.w, fh |-> r.fh, live |-> r.live, err |-> r.err,
              stage |-> IF r.err = OK THEN "done" ELSE "init", mid |-> p.mid]

(* The errors of the walker that the archive's structure causes.           *)
Structural == {errInvalidFileBlock, errUnexpectedArcEnd}

(************************ caller of the walker *****************************)
(* Calls of next() that changed the block source: the records handed out,  *)
(* and the end of the archive.                                             *)
Calls(s) == s.n + (IF s.st = "open" THEN 0 ELSE 1)

World == [src |-> src, h |-> h, g |-> g, rd |-> rd, arc |-> arc]

Envs == [chunk : 1..MaxBuf, eager : BOOLEAN]

(* No ReadSeeker: the callers of rardecode do not use one.                 *)
NoStream == [data |-> <<>>, pos |-> 0]

(* The fields of the record the latest successful Next read.               *)
HeaderAttr(a) ==
    [key |-> a.key, iv |-> a.iv, decoder |-> a.decoder, want |-> a.want, solid |-> a.solid]

NilAttr == [key |-> 0, iv |-> 0, decoder |-> "none", want |-> -1, solid |-> FALSE]

NewObs ==
    [op |-> "new", n |-> 0, err |-> OK, hdr |-> NilHdr, out |-> <<>>,
     nRet |-> 0, h0 |-> Core(NilHdr), k0 |-> 0, decl |-> 0,
     fh |-> NilFile, len0 |-> 0, cerr |-> OK, asked |-> FALSE, nBad |-> 0,
     stage |-> "", mid |-> NoMid, own0 |-> FALSE, solidr0 |-> FALSE,
     dictBase |-> 0, dictPrev |-> 0, fatal |-> FALSE, kept |-> TRUE,
     live |-> FALSE, renamedAt |-> 0, teeOK |-> TRUE, attr |-> NilAttr,
     last |-> 0]

InitWalker ==
    /\ src = [st |-> "open", n |-> 0, cur |-> NilHdr, off |-> 0, solid |-> FALSE]
    /\ h = NilHdr
    /\ g = [prev |-> Core(NilHdr), fed |-> <<>>, start |-> 0, chainOK |-> FALSE, arcOK |-> TRUE, nFiles |-> 0]
    /\ rd = NewReader
    /\ obs = NewObs
    /\ rs = NoStream
    /\ arc = [maxBlocks |-> MaxBlocks, names |-> Names, maxLen |-> MaxBlockLen, attrs |-> {}]

SetWorld(w) ==
    /\ src' = w.src
    /\ h' = w.h
    /\ g' = w.g
    /\ rd' = w.rd
    /\ arc' = arc
    /\ rs' = rs

(* A caller that uses the walker directly.                                 *)
PfrNextCall ==
    \E env \in Envs : \E o \in pfrNext(World, env) :
        /\ SetWorld(o.w)
        /\ obs' = [obs EXCEPT !.op = "next", !.n = 0, !.err = o.err, !.hdr = o.h,
                              !.out = <<>>,
                              !.nRet = IF o.err = OK THEN @ + 1 ELSE @,
                              !.h0 = Core(h), !.k0 = Calls(src),
                              !.fatal = @ \/ o.err \in Structural]

PfrReadCall ==
    \E plen \in 1..MaxBuf : \E env \in Envs : \E o \in pfrRead(World, plen, env) :
        /\ SetWorld(o.w)
        /\ obs' = [obs EXCEPT !.op = "read", !.n = o.n, !.err = o.err,
                              !.out = @ \o o.data, !.h0 = Core(h), !.k0 = Calls(src)]

NextPacked == PfrNextCall \/ PfrReadCall

SpecPacked == InitWalker /\ [][NextPacked]_vars

(************************ caller of a limitedReader ************************)
(* limitReader(r, L, errShortFile) over a source of S bytes.               *)
InitLimited ==
    \E L \in 0..MaxLimit, S \in 0..MaxMem :
        /\ src = [st |-> "open", n |-> 0, cur |-> NilHdr, off |-> 0, solid |-> FALSE]
        /\ h = NilHdr
        /\ g = [prev |-> Core(NilHdr), fed |-> <<>>, start |-> 0, chainOK |-> FALSE, arcOK |-> TRUE, nFiles |-> 0]
        /\ rd = [NewReader EXCEPT !.chain.lim = TRUE, !.mem.len = S, !.lim = L,
                                  !.shortErr = errShortFile]
        /\ obs = [NewObs EXCEPT !.decl = L]
        /\ rs = NoStream
        /\ arc = [maxBlocks |-> 0, names |-> {}, maxLen |-> 0, attrs |-> {}]

LimitedReadCall ==
    \E plen \in 1..MaxBuf : \E env \in Envs : \E o \in limRead(World, plen, env) :
        /\ SetWorld(o.w)
        /\ obs' = [obs EXCEPT !.op = "read", !.n = o.n, !.err = o.err,
                              !.out = @ \o o.data]

NextLimited == LimitedReadCall

SpecLimited == InitLimited /\ [][NextLimited]_vars

(************************ caller of the Reader *****************************)
InitReader ==
    \E solid \in BOOLEAN :
        /\ src = [st |-> "open", n |-> 0, cur |-> NilHdr, off |-> 0, solid |-> solid]
        /\ h = NilHdr
        /\ g = [prev |-> Core(NilHdr), fed |-> <<>>, start |-> 0, chainOK |-> FALSE, arcOK |-> TRUE, nFiles |-> 0]
        /\ rd = NewReader
        /\ obs = NewObs
        /\ rs = NoStream
        /\ arc = [maxBlocks |-> MaxFileBlocks, names |-> {"a"}, maxLen |-> MaxFileBlockLen,
                  attrs |-> FileAttrs]

(* The block source's read behaviour matters to Next only when it drains.  *)
NextEnvs ==
    IF rd.solidr THEN Envs ELSE {[chunk |-> 1, eager |-> FALSE]}

(* The fields Next reads are revealed only if pr.next returns a record.    *)
AttrsFor(p) == IF p.err = OK THEN arc.attrs ELSE {CHOOSE a \in arc.attrs : TRUE}

ReaderNextCall ==
    \E env \in NextEnvs : \E p \in advance(World, env) : \E a \in AttrsFor(p) :
      LET o == readerNext(p, a) IN
        /\ SetWorld(o.w)
        /\ obs' = [obs EXCEPT !.op = "next", !.n = 0, !.err = o.err,
                              !.fh = o.fh,
                              !.out = <<>>,
                              !.nRet = IF o.err = OK THEN @ + 1 ELSE @,
                              !.cerr = OK, !.asked = FALSE,
                              !.nBad = IF o.err = OK THEN 0 ELSE @,
                              !.stage = o.stage, !.mid = o.mid,
                              !.own0 = (obs.fh # NilFile /\ obs.fh.serial = o.mid.start),
                              !.solidr0 = rd.solidr,
                              !.dictBase = IF o.err # OK THEN @
                                           ELSE IF o.w.rd.chain.dec
                                             THEN o.w.rd.dr.dict + o.w.rd.dr.pad
                                           ELSE 0,
                              !.dictPrev = obs.dictBase,
                              !.fatal = @ \/ o.err \in Structural,
                              !.kept = (o.w.rd.owner = rd.owner /\ o.w.rd.cksum = rd.cksum),
                              !.live = o.live, !.renamedAt = 0,
                              !.teeOK = (o.err = OK \/ o.w.rd.sink = rd.sink),
                              !.attr = IF o.err = OK THEN HeaderAttr(a) ELSE NilAttr,
                              !.last = IF o.err = OK THEN o.fh.serial ELSE @]

(* The caller gives up on a file after MaxBadReads checksum errors.        *)
ReaderReadCall ==
    /\ obs.nBad < MaxBadReads
    /\ \E plen \in 1..MaxBuf : \E env \in Envs :
         \E o \in readerRead(World, plen, env) :
            /\ SetWorld(o.w)
            /\ obs' = [obs EXCEPT !.op = "read", !.n = o.n, !.err = o.err,
                                  !.out = @ \o o.data, !.len0 = Len(obs.out),
                                  !.cerr = o.cerr, !.asked = o.asked,
                                  !.nBad = IF o.err = errBadFileChecksum THEN @ + 1 ELSE @]

NextReader == ReaderNextCall \/ ReaderReadCall

SpecReader == InitReader /\ [][NextReader]_vars

(* Archives of compressed files without size bound or checksum, for the    *)
(* drain across solid files.                                               *)
SolidAttrs == { a \in FileAttrs : a.want = -1 /\ a.size = -1 /\ ~a.unknown }

InitSolid ==
    \E solid \in BOOLEAN :
        /\ src = [st |-> "open", n |-> 0, cur |-> NilHdr, off |-> 0, solid |-> solid]
        /\ h = NilHdr
        /\ g = [prev |-> Core(NilHdr), fed |-> <<>>, start |-> 0, chainOK |-> FALSE, arcOK |-> TRUE, nFiles |-> 0]
        /\ rd = NewReader
        /\ obs = NewObs
        /\ rs = NoStream
        /\ arc = [maxBlocks |-> MaxSolidBlocks, names |-> {"a"}, maxLen |-> MaxFileBlockLen,
                  attrs |-> SolidAttrs]

SpecSolid == InitSolid /\ [][NextReader]_vars

(* Archives of files with or without checksum whose decoder the decode     *)
(* layer may refuse ("bad"), without size bound or padding.                *)
InitAttrs ==
    { a \in [solid : BOOLEAN, decoder : {"none", "ok", "bad"}, want : -1..(CksumMod - 1),
             size : {-1}, unknown : {FALSE}, key : {0}, iv : {0}, pad : {0}] :
        a.decoder = "none" => ~a.solid }

InitRefusing ==
    \E solid \in BOOLEAN :
        /\ src = [st |-> "open", n |-> 0, cur |-> NilHdr, off |-> 0, solid |-> solid]
        /\ h = NilHdr
        /\ g = [prev |-> Core(NilHdr), fed |-> <<>>, start |-> 0, chainOK |-> FALSE, arcOK |-> TRUE, nFiles |-> 0]
        /\ rd = NewReader
        /\ obs = NewObs
        /\ rs = NoStream
        /\ arc = [maxBlocks |-> MaxFileBlocks, names |-> {"a"}, maxLen |-> MaxFileBlockLen,
                  attrs |-> InitAttrs]

SpecRefusing == InitRefusing /\ [][NextReader]_vars

(* Archives of files with or without key, iv, decoder, size bound and      *)
(* checksum, in every combination.                                         *)
LayerAttrs ==
    { a \in [solid : {FALSE}, decoder : {"none", "ok"}, want : {-1, 0},
             size : {-1, MaxSize}, unknown : BOOLEAN, key : 0..MaxKey, iv : 0..MaxKey,
             pad : {0}] :
        a.unknown => a.size = MaxSize }

InitLayers ==
    /\ src = [st |-> "open", n |-> 0, cur |-> NilHdr, off |-> 0, solid |-> FALSE]
    /\ h = NilHdr
    /\ g = [prev |-> Core(NilHdr), fed |-> <<>>, start |-> 0, chainOK |-> FALSE, arcOK |-> TRUE, nFiles |-> 0]
    /\ rd = NewReader
    /\ obs = NewObs
    /\ rs = NoStream
    /\ arc = [maxBlocks |-> MaxFileBlocks, names |-> {"a"}, maxLen |-> MaxFileBlockLen,
              attrs |-> LayerAttrs]

SpecLayers == InitLayers /\ [][NextReader]_vars

(* Archives of stored files (no decoder, no checksum, size unknown) under  *)
(* two names, read by a caller that changes the Name of the header Next    *)
(* returned.                                                               *)
PlainAttrs ==
    { a \in FileAttrs : a.decoder = "none" /\ a.want = -1 /\ a.size = -1 /\ ~a.unknown }

NewName == "x"

InitHeader ==
    /\ src = [st |-> "open", n |-> 0, cur |-> NilHdr, off |-> 0, solid |-> FALSE]
    /\ h = NilHdr
    /\ g = [prev |-> Core(NilHdr), fed |-> <<>>, start |-> 0, chainOK |-> FALSE, arcOK |-> TRUE, nFiles |-> 0]
    /\ rd = NewReader
    /\ obs = NewObs
    /\ rs = NoStream
    /\ arc = [maxBlocks |-> MaxBlocks, names |-> Names, maxLen |-> MaxFileBlockLen,
              attrs |-> PlainAttrs]

(* The caller writes fh.Name; a live header is the walker's record (and    *)
(* the block source's, the same object), a copy is the caller's own.       *)
CallerRename ==
    /\ obs.fh # NilFile /\ obs.fh.name # NewName
    /\ obs' = [obs EXCEPT !.op = "rename", !.fh.name = NewName, !.renamedAt = Calls(src)]
    /\ h' = IF obs.live /\ h.serial = obs.fh.serial THEN [h EXCEPT !.name = NewName] ELSE h
    /\ src' = IF obs.live /\ src.cur.serial = obs.fh.serial
                THEN [src EXCEPT !.cur.name = NewName] ELSE src
    /\ UNCHANGED <<g, rd, arc, rs>>

NextHeader == ReaderNextCall \/ ReaderReadCall \/ CallerRename

SpecHeader == InitHeader /\ [][NextHeader]_vars

(************************ tag.Identify *************************************)
(* Bytes are their ASCII codes.                                            *)
fLaC == <<102, 76, 97, 67>>
OggS == <<79, 103, 103, 83>>
ftypM4A == <<102, 116, 121, 112, 77, 52, 65>>
ID3 == <<73, 68, 51>>
TAG == <<84, 65, 71>>

HeadSize == 11
TagSize == 128

errUnexpectedEOF == "io.ErrUnexpectedEOF"
errSeek == "negative position"
errSeekBack == "could not seek back to original position"
errID3Version == "ID3 version"
ErrNoTagsFound == "ErrNoTagsFound"

(* readBytes(r, n), io.ReadFull into a buffer of n bytes: n bytes and the  *)
(* position n further, or what is left and an error.                       *)
readBytes(r, n) ==
    LET left == Len(r.data) - r.pos
    IN  IF left <= 0 THEN [rs |-> r, b |-> <<>>, err |-> EOF]
        ELSE IF left < n
          THEN [rs |-> [r EXCEPT !.pos = Len(r.data)], b |-> <<>>, err |-> errUnexpectedEOF]
        ELSE [rs |-> [r EXCEPT !.pos = @ + n],
              b |-> SubSeq(r.data, r.pos + 1, r.pos + n), err |-> OK]

(* io.Seeker.Seek(off, whence): the new position from the start; a         *)
(* position before the start is an error, one past the end is not.         *)
seek(r, off, whence) ==
    LET base == IF whence = "SEEK_CUR" THEN r.pos ELSE Len(r.data)
        np == base + off
    IN  IF np < 0 THEN [rs |-> r, n |-> 0, err |-> errSeek]
        ELSE [rs |-> [r EXCEPT !.pos = np], n |-> np, err |-> OK]

IdResult(r, format, fileType, err) ==
    [rs |-> r, format |-> format, fileType |-> fileType, err |-> err]

(* Identify, lines 50-69: the ID3v1 marker TagSize bytes before the end.   *)
identifyTail(r) ==
    LET k == seek(r, -TagSize, "SEEK_END")
    IN  IF k.err # OK THEN IdResult(k.rs, "", "", k.err)
        ELSE LET t == readBytes(k.rs, 3)
             IN  IF t.err # OK THEN IdResult(t.rs, "", "", t.err)
                 ELSE LET back == seek(t.rs, -k.n, "SEEK_CUR")
                      IN  IF back.err # OK THEN IdResult(back.rs, "", "", back.err)
                          ELSE IF t.b # TAG
                            THEN IdResult(back.rs, "", "", ErrNoTagsFound)
                          ELSE IdResult(back.rs, "ID3v1", "MP3", OK)

(* Identify, lines 10-48.                                                  *)
Identify(r) ==
    LET rb == readBytes(r, HeadSize)
    IN  IF rb.err # OK THEN IdResult(rb.rs, "", "", rb.err)
        ELSE LET k == seek(rb.rs, -HeadSize, "SEEK_CUR")
                 b == rb.b
             IN  IF k.err # OK THEN IdResult(k.rs, "", "", errSeekBack)
                 ELSE IF SubSeq(b, 1, 4) = fLaC THEN IdResult(k.rs, "VORBIS", "FLAC", OK)
                 ELSE IF SubSeq(b, 1, 4) = OggS THEN IdResult(k.rs, "VORBIS", "OGG", OK)
                 ELSE IF SubSeq(b, 5, 11) = ftypM4A THEN IdResult(k.rs, "AAC", "MP4", OK)
                 ELSE IF SubSeq(b, 1, 3) = ID3
                   THEN IF b[4] = 2 THEN IdResult(k.rs, "ID3v2.2", "MP3", OK)
                        ELSE IF b[4] = 3 THEN IdResult(k.rs, "ID3v2.3", "MP3", OK)
                        ELSE IF b[4] = 4 THEN IdResult(k.rs, "ID3v2.4", "MP3", OK)
                        ELSE IdResult(k.rs, "", "", errID3Version)
                 ELSE identifyTail(k.rs)

(* The streams: a leading pattern at position q, filler, and the marker    *)
(* TAG or not TagSize bytes before the end.                                *)
Heads ==
    { <<>>, fLaC, OggS, <<1, 1, 1, 1>> \o ftypM4A,
      ID3 \o <<2>>, ID3 \o <<3>>, ID3 \o <<4>>, ID3 \o <<5>> }

Stream(len, q, head, tagged) ==
    [i \in 1..len |->
        IF q < i /\ i <= q + Len(head) THEN head[i - q]
        ELSE IF tagged /\ len - TagSize < i /\ i <= len - TagSize + 3
          THEN TAG[i - (len - TagSize)]
        ELSE 0]

EntryPos(len) == (0..MaxPos) \cup {len - 10, len}

InitIdentify ==
    \E len \in TagSize..(TagSize + MaxExtra), q \in 0..MaxPos, head \in Heads,
       tagged \in BOOLEAN :
      \E pos \in EntryPos(len) :
        /\ rs = [data |-> Stream(len, q, head, tagged), pos |-> pos]
        /\ obs = [op |-> "new", pos0 |-> pos, format |-> "", fileType |-> "", err |-> OK]
        /\ src = [st |-> "open", n |-> 0, cur |-> NilHdr, off |-> 0, solid |-> FALSE]
        /\ h = NilHdr
        /\ g = [prev |-> Core(NilHdr), fed |-> <<>>, start |-> 0, chainOK |-> FALSE, arcOK |-> TRUE, nFiles |-> 0]
        /\ rd = NewReader
        /\ arc = [maxBlocks |-> 0, names |-> {}, maxLen |-> 0, attrs |-> {}]

IdentifyCall ==
    LET o == Identify(rs)
    IN  /\ rs' = o.rs
        /\ obs' = [op |-> "identify", pos0 |-> rs.pos, format |-> o.format,
                   fileType |-> o.fileType, err |-> o.err]
        /\ UNCHANGED <<src, h, g, rd, arc>>

NextIdentify == IdentifyCall

SpecIdentify == InitIdentify /\ [][NextIdentify]_vars

(************************ properties of the walker *************************)
(* The walker's current record when the call's last next() of the block    *)
(* source was made: the record the call started with if that next() was    *)
(* the call's first, else the record fetched just before it.               *)
HAt == IF Calls(src) <= obs.k0 + 1 THEN obs.h0 ELSE g.prev

ChainOpen(x) == x.serial # 0 /\ ~x.last

(* The call's last next() handed out a record (it is the source's current  *)
(* record).                                                                *)
FetchedRecord == obs.op \in {"next", "read"} /\ Calls(src) > obs.k0 /\ src.cur # NilHdr

(* The current file is the one whose chain the block source is handing     *)
(* out, and the records handed out for it form a chain so far.             *)
InOwnChain == obs.hdr # NilHdr /\ obs.hdr.serial = g.start /\ g.chainOK

(* C1: for a file whose records form a chain, the bytes Read has delivered *)
(* since next() are at every moment a prefix of the concatenation of the   *)
(* chain's payloads in chain order, and when Read returns io.EOF they are  *)
(* the whole concatenation, the chain's last record having last=true.      *)
C1_ChainConcatenation ==
    InOwnChain =>
        /\ IsPrefix(obs.out, g.fed)
        /\ (obs.op = "read" /\ obs.err = EOF =>
               /\ obs.out = g.fed
               /\ obs.n = 0
               /\ h = src.cur /\ h.last)

(* A chain of three blocks of lengths 2, 0 and 1 read to io.EOF.           *)
C1_Witness ==
    /\ InOwnChain /\ obs.op = "read" /\ obs.err = EOF
    /\ g.start = 1 /\ src.n = 3
    /\ obs.out = <<Stride + 1, Stride + 2, 3 * Stride + 1>>

(* C7: while the records handed out fit a well-formed archive, every       *)
(* advance either returns the header of the next file (the record the      *)
(* source has just handed out, the one file more than the call before) or, *)
(* at the end of the archive, plain io.EOF with every file returned once;  *)
(* the bytes delivered for a file are never those of another file.         *)
C7_OneHeaderPerFile ==
    g.arcOK =>
        /\ obs.op = "next" =>
              /\ obs.err \in {OK, EOF}
              /\ obs.nRet = g.nFiles
              /\ (obs.err = OK =>
                    obs.hdr = src.cur /\ obs.hdr.first /\ obs.hdr.serial = g.start)
              /\ (obs.err = EOF => src.st = "eof" /\ obs.hdr = NilHdr)
        /\ obs.op = "read" => obs.err \in {OK, EOF} /\ obs.nRet = g.nFiles
        /\ IsPrefix(obs.out, g.fed)

(* Two files, the first of two blocks, and the third advance at the end.   *)
C7_Witness ==
    /\ g.arcOK /\ obs.op = "next" /\ obs.err = EOF
    /\ obs.nRet = 2 /\ src.n = 3

(* C8: when the record fetched while the chain is open has first=true or   *)
(* another name, the call fails with errInvalidFileBlock, the walker's     *)
(* current record stays, no header is returned, no byte is delivered and   *)
(* the fetched block is not read.                                          *)
C8_ContinuityViolation ==
    (FetchedRecord /\ ChainOpen(HAt) /\ (src.cur.first \/ src.cur.name # HAt.name)) =>
        /\ obs.err = errInvalidFileBlock
        /\ Core(h) = HAt
        /\ obs.n = 0 /\ src.off = 0
        /\ (obs.op = "next" => obs.hdr = NilHdr)

(* A Read that crosses a block boundary and meets a record of another name *)
(* with first=false.                                                       *)
C8_Witness ==
    /\ FetchedRecord /\ obs.op = "read" /\ ChainOpen(HAt)
    /\ ~src.cur.first /\ src.cur.name # HAt.name
    /\ obs.err = errInvalidFileBlock

(* C9: when the block source is exhausted while the chain is open, the     *)
(* call fails with errUnexpectedArcEnd, from Read and from next alike;     *)
(* next returns plain io.EOF only when the source is exhausted at a file   *)
(* boundary, and Read returns io.EOF only at the chain's last record.      *)
C9_ArchiveEnd ==
    /\ (obs.op \in {"next", "read"} /\ src.st = "eof" /\ ChainOpen(HAt)) =>
          obs.err = errUnexpectedArcEnd /\ Core(h) = HAt
    /\ (obs.op = "next" /\ obs.err = EOF) => src.st = "eof" /\ ~ChainOpen(HAt)
    /\ (obs.op = "read" /\ obs.err = EOF) => ~ChainOpen(h)

(* The skip loop of next fetched a block and then met the archive's end.   *)
C9_Witness ==
    /\ obs.op = "next" /\ src.st = "eof" /\ Calls(src) = obs.k0 + 2
    /\ ChainOpen(HAt) /\ obs.err = errUnexpectedArcEnd

(* C10: next returns a header only of a record with first=true; a record   *)
(* with first=false fetched at a file boundary makes it fail with          *)
(* errInvalidFileBlock and no header, and the end of the source at a file  *)
(* boundary makes it return io.EOF.                                        *)
C10_FirstRecordOnly ==
    obs.op = "next" =>
        /\ (obs.err = OK) = (obs.hdr # NilHdr)
        /\ (obs.hdr # NilHdr => obs.hdr.first /\ obs.hdr = src.cur /\ h = src.cur)
        /\ (FetchedRecord /\ ~ChainOpen(HAt) /\ ~src.cur.first =>
               obs.err = errInvalidFileBlock /\ obs.hdr = NilHdr)
        /\ (src.st = "eof" /\ ~ChainOpen(HAt) => obs.err = EOF /\ obs.hdr = NilHdr)

(* After skipping a block, the record met at the file boundary has         *)
(* first=false.                                                            *)
C10_Witness ==
    /\ obs.op = "next" /\ FetchedRecord /\ Calls(src) = obs.k0 + 2
    /\ ~ChainOpen(HAt) /\ ~src.cur.first /\ obs.err = errInvalidFileBlock

(************************ properties of limitedReader **********************)
(* C2: a limitedReader with limit L over a source of S bytes delivers the  *)
(* source's first bytes in order, never more than min(L,S); a read that    *)
(* returns no error delivers at least one byte; io.EOF is returned only    *)
(* when S >= L and L bytes have been delivered, errShortFile only when     *)
(* S < L and the S bytes have been delivered, and no other error.          *)
C2_BoundedReader ==
    LET L == obs.decl
        S == rd.mem.len
    IN  /\ Len(obs.out) <= Min(L, S)
        /\ obs.out = [i \in 1..Len(obs.out) |-> i]
        /\ rd.lim = L - Len(obs.out)
        /\ obs.op = "read" =>
              /\ obs.err \in {OK, EOF, errShortFile}
              /\ (obs.err = OK => obs.n >= 1)
              /\ (obs.err = EOF => S >= L /\ Len(obs.out) = L)
              /\ (obs.err = errShortFile => S < L /\ Len(obs.out) = S)

(* S = 2 < L = 3: the two bytes, then errShortFile.                        *)
C2_Witness ==
    /\ obs.op = "read" /\ obs.err = errShortFile
    /\ obs.decl = 3 /\ rd.mem.len = 2 /\ Len(obs.out) = 2

(************************ properties of the Reader *************************)
(* The stream under the size bound has ended: the decode layer is at       *)
(* io.EOF, or without one the walker is at the end of a last block.        *)
StreamEnded ==
    IF rd.chain.dec THEN rd.dr.eof /\ rd.dr.pad = 0
    ELSE IF rd.chain.base = "pr" THEN src.off = src.cur.len /\ (h = NilHdr \/ h.last)
    ELSE rd.mem.off = rd.mem.len

(* The chain r.r has nothing more to deliver and reports io.EOF.           *)
ChainAtEnd == IF rd.chain.lim THEN rd.lim <= 0 ELSE StreamEnded

ValidNow == valid(World)

KnownSize == obs.fh # NilFile /\ obs.fh.size >= 0 /\ ~obs.fh.unknown

(* C3: for a file of known unpacked size the bytes Read has delivered      *)
(* since Next never exceed UnPackedSize; Read returns io.EOF (or the       *)
(* checksum error that replaces it) only when exactly UnPackedSize bytes   *)
(* have been delivered, and when the stream under the bound has ended      *)
(* before that, a Read that delivers nothing returns errShortFile.         *)
C3_SizeBound ==
    KnownSize =>
        /\ Len(obs.out) <= obs.fh.size
        /\ obs.op = "read" =>
              /\ (obs.err \in {EOF, errBadFileChecksum} => Len(obs.out) = obs.fh.size)
              /\ (obs.err = errShortFile => Len(obs.out) < obs.fh.size /\ StreamEnded)
              /\ (StreamEnded /\ Len(obs.out) < obs.fh.size /\ obs.n = 0 =>
                     obs.err = errShortFile)

(* A compressed file of size 1 whose decode stream holds a second byte,    *)
(* its padding: one byte delivered, then io.EOF.                           *)
C3_Witness ==
    /\ KnownSize /\ obs.fh.size = 1 /\ rd.chain.dec /\ rd.dr.pad = 1
    /\ obs.op = "read" /\ obs.err = EOF /\ Len(obs.out) = 1

(* C4 as amended: with a sink attached, Read returns errBadFileChecksum    *)
(* only when the chain is exhausted and the sink invalid, io.EOF only when *)
(* the chain is exhausted and the sink valid, and every Read that meets    *)
(* the exhausted chain returns the one or the other: the first such read   *)
(* and each later one.                                                     *)
C4_ChecksumAtEnd ==
    (obs.op = "read" /\ rd.cksum # NilSum) =>
        /\ (obs.err = errBadFileChecksum => ChainAtEnd /\ ~ValidNow)
        /\ (obs.err = EOF => ChainAtEnd /\ ValidNow)
        /\ (ChainAtEnd /\ (obs.n = 0 \/ obs.cerr = EOF) =>
               obs.err = IF ValidNow THEN EOF ELSE errBadFileChecksum)

(* C4 as stated: the reads of one file return errBadFileChecksum exactly   *)
(* once.                                                                   *)
C4_ExactlyOnce == C4_ChecksumAtEnd /\ obs.nBad <= 1

(* The second Read at the end of a file whose sink is invalid.             *)
C4_Witness ==
    /\ obs.op = "read" /\ rd.cksum # NilSum /\ ~ValidNow /\ ChainAtEnd
    /\ obs.err = errBadFileChecksum /\ obs.nBad = 2 /\ Len(obs.out) >= 1

(* C5: Read returns errBadFileChecksum only when the chain returned        *)
(* io.EOF, a sink is attached and it is invalid; in every other call it    *)
(* returns the chain's error, asks the sink only after io.EOF with a sink  *)
(* attached, and the bytes of the call are added to those delivered.       *)
C5_OnlyAtChainEOF ==
    obs.op = "read" =>
        LET bad == obs.cerr = EOF /\ rd.cksum # NilSum /\ ~ValidNow
        IN  /\ (obs.err = errBadFileChecksum) = bad
            /\ (~bad => obs.err = obs.cerr)
            /\ (obs.asked => obs.cerr = EOF /\ rd.cksum # NilSum)
            /\ Len(obs.out) = obs.len0 + obs.n

(* The chain ends short with an invalid sink: errShortFile is returned.    *)
C5_Witness ==
    /\ obs.op = "read" /\ obs.cerr = errShortFile /\ rd.cksum # NilSum /\ ~ValidNow
    /\ obs.err = errShortFile /\ ~obs.asked

(* C6: when Next is called with a solid stream pending and gets past the   *)
(* drain, the decode stream was at io.EOF when the walker advanced; the    *)
(* decode layer had then produced every byte of the file before (those in  *)
(* its dictionary when the file began, the file's payload and padding),    *)
(* and a solid file that follows starts from that count.                   *)
C6_SolidDrain ==
    (obs.op = "next" /\ obs.solidr0 /\ obs.stage # "drain") =>
        /\ obs.mid.eof
        /\ (obs.own0 => obs.mid.dict = obs.dictPrev + obs.mid.fedLen)
        /\ (obs.stage = "done" /\ rd.chain.dec =>
               rd.dr.dict = IF rd.dr.reset THEN 0 ELSE obs.mid.dict)

(* A solid file follows a file of two blocks that Next had to drain.       *)
C6_Witness ==
    /\ obs.op = "next" /\ obs.solidr0 /\ obs.stage = "done" /\ obs.own0
    /\ rd.chain.dec /\ ~rd.dr.reset /\ src.n = 3
    /\ obs.mid.fedLen = 2 /\ rd.dr.dict = 3

(* C11: once a Next has failed with errInvalidFileBlock or                 *)
(* errUnexpectedArcEnd (obs.fatal), no later Next on the same Reader       *)
(* returns a file header.                                                  *)
C11_StructuralErrorsFatal ==
    (obs.fatal /\ obs.op = "next") => obs.err # OK /\ obs.fh = NilFile

(* The chain r.r and the sink r.cksum are both the new file's.             *)
BothNew ==
    /\ h # NilHdr /\ rd.owner = h.serial
    /\ (rd.cksum = NilSum \/ rd.cksum.id = rd.owner)

(* C12: after every Next, failed or not, the chain r.r and the sink        *)
(* r.cksum are either both the new file's or both as they were before the  *)
(* call (obs.kept); a sink is never paired with the chain of another file. *)
C12_AtomicReplace ==
    obs.op = "next" =>
        /\ (BothNew \/ obs.kept)
        /\ (rd.cksum # NilSum => rd.cksum.id = rd.owner)

C14_SinkSeesWhatCallerGot ==
    /\ obs.teeOK
    /\ (obs.fh # NilFile /\ rd.cksum # NilSum) =>
          rd.cksum.id = obs.fh.serial /\ rd.sink = obs.out

(* A Next drained the decode stream of a file with a sink, of which the    *)
(* caller had read nothing, and then failed in the walker: the sink is     *)
(* empty although the decode layer produced bytes.                         *)
C14_Witness ==
    /\ obs.op = "next" /\ obs.solidr0 /\ obs.stage = "advance" /\ obs.err # OK
    /\ rd.cksum # NilSum /\ rd.sink = <<>> /\ obs.mid.dict >= 1 /\ obs.mid.eof

(* What the chain of the current file makes of a payload byte.             *)
Through(b) ==
    LET d == IF rd.chain.aes THEN Decrypt(b) ELSE b
    IN  IF rd.chain.dec THEN Decode(d) ELSE d

(* C15: after a successful Next the chain is the walker's stream, with the *)
(* decrypt layer iff key and iv are both non-empty, the decode layer (over *)
(* the decrypt layer, if any) iff the record has a decoder, the bounded    *)
(* reader iff the size is known, the tee iff the record has a sink; bound, *)
(* sink and owner are the new file's; and the bytes Read delivers are the  *)
(* file's payload, decrypted first and decoded second.                     *)
C15_ChainShape ==
    obs.fh # NilFile =>
        /\ rd.chain.base = "pr" /\ rd.owner = obs.fh.serial
        /\ rd.chain.aes = (obs.attr.key > 0 /\ obs.attr.iv > 0)
        /\ rd.chain.dec = (obs.attr.decoder # "none")
        /\ (rd.chain.dec => rd.dr.aes = rd.chain.aes)
        /\ rd.chain.lim = (obs.fh.size >= 0 /\ ~obs.fh.unknown)
        /\ (rd.chain.lim => rd.shortErr = errShortFile
                            /\ rd.lim = obs.fh.size - Len(obs.out))
        /\ rd.chain.tee = (obs.attr.want >= 0)
        /\ rd.cksum = (IF obs.attr.want >= 0
                         THEN [id |-> obs.fh.serial, want |-> obs.attr.want] ELSE NilSum)
        /\ (obs.fh.serial = g.start /\ g.chainOK =>
               \A i \in 1..Len(obs.out) :
                   obs.out[i] = IF i <= Len(g.fed) THEN Through(g.fed[i]) ELSE PadByte)

(* A file with all four layers, of which a byte has been read.             *)
C15_Witness ==
    /\ obs.fh # NilFile /\ obs.op = "read" /\ obs.n = 1
    /\ rd.chain.aes /\ rd.chain.dec /\ rd.chain.lim /\ rd.chain.tee
    /\ obs.out = <<Decode(Decrypt(g.fed[1]))>>

(* C16: after a successful Next the drain target r.solidr is set iff the   *)
(* new file has a decoder and the archive is solid; whenever it is set it  *)
(* is the decode stream of the chain of the file the latest successful     *)
(* Next returned (obs.last), so that is the only stream a Next can drain.  *)
C16_DrainTarget ==
    /\ (obs.op = "next" /\ obs.err = OK) =>
          rd.solidr = (obs.attr.decoder # "none" /\ src.solid)
    /\ rd.solidr => rd.chain.dec /\ src.solid /\ rd.owner = obs.last /\ obs.last # 0

(* In a solid archive a file without decoder follows a file with one: the  *)
(* target is cleared.                                                      *)
C16_Witness ==
    /\ obs.op = "next" /\ obs.err = OK /\ obs.nRet = 2
    /\ src.solid /\ obs.solidr0 /\ ~rd.solidr /\ obs.attr.decoder = "none"

(* C17: the decode layer of a file's chain was initialised with the reset  *)
(* flag equal to the negation of the record's solid flag: after Next its   *)
(* count of bytes produced is 0 for a non-solid file and is the count it   *)
(* had when the walker advanced for a solid file.                          *)
C17_ResetIsNotSolid ==
    (obs.fh # NilFile /\ rd.chain.dec) =>
        /\ rd.dr.reset = ~obs.attr.solid
        /\ (obs.op = "next" =>
               rd.dr.dict = IF obs.attr.solid THEN obs.mid.dict ELSE 0)

(* A non-solid compressed file follows a file whose decode layer had       *)
(* produced bytes: the count starts again at 0.                            *)
C17_Witness ==
    /\ obs.fh # NilFile /\ rd.chain.dec /\ obs.op = "next" /\ obs.nRet = 2
    /\ ~obs.attr.solid /\ rd.dr.reset /\ obs.mid.dict >= 1 /\ rd.dr.dict = 0

(* C18: packedFileReader.Read returns io.EOF only with zero bytes, the     *)
(* current block exhausted and the current record last (or no current      *)
(* record); bytes always come with a nil error, also when the block source *)
(* gave io.EOF with them; a nil error comes with at least one byte, so the *)
(* end of a block that is not the last, or an empty one, is passed over.   *)
C18_NoSpuriousEOF ==
    obs.op = "read" =>
        /\ (obs.err = EOF =>
               obs.n = 0 /\ src.off = src.cur.len /\ (h = NilHdr \/ h.last))
        /\ (obs.n > 0 => obs.err = OK)
        /\ (obs.err = OK => obs.n >= 1)
        /\ (Calls(src) > obs.k0 /\ obs.err \in {OK, EOF} => h = src.cur /\ ~h.first)

(* One Read passes the end of the current block and an empty block and     *)
(* delivers the whole of the block after it.                               *)
C18_Witness ==
    /\ obs.op = "read" /\ obs.err = OK /\ obs.n = 2
    /\ Calls(src) = obs.k0 + 2 /\ src.n = 3 /\ ~h.last
    /\ src.off = src.cur.len

(* C19: Next never returns errBadFileChecksum or errShortFile, whatever    *)
(* the file it drains or skips: not when the file's sink is invalid, not   *)
(* when its decode stream ends before the size bound is met.               *)
C19_NextNeverVerifies ==
    obs.op = "next" => obs.err \notin {errBadFileChecksum, errShortFile}

(* Next drained a file to the end of its decode stream, the size bound not *)
(* met and the sink invalid, and returned the walker's io.EOF.             *)
C19_Witness ==
    /\ obs.op = "next" /\ obs.solidr0 /\ obs.stage = "advance" /\ obs.err = EOF
    /\ obs.mid.eof /\ rd.chain.lim /\ rd.lim > 0
    /\ rd.cksum # NilSum /\ ~ValidNow

(* C20: whenever Identify returns without error the ReadSeeker is at the   *)
(* position it had on entry.                                               *)
C20_PositionRestored ==
    (obs.op = "identify" /\ obs.err = OK) => rs.pos = obs.pos0

====
